---- MODULE Spec2Model ----
(***************************************************************************)
(* Model of the FreeRADIUS MAC scripts:                                    *)
(*   src/mac_add.py   the enrollment tool (validate, normalize, add the    *)
(*                    record to the users file, restart or reboot)         *)
(*   src/read_log.py  the authorization-aware log monitor                  *)
(* Text is a sequence of one-character strings, so that regular            *)
(* expressions, substring tests and line splitting are computed character  *)
(* by character as Python computes them.                                   *)
(***************************************************************************)
EXTENDS Integers, Sequences, FiniteSets, TLC

VARIABLES
    \* ---- enrollment tool (mac_add.py) ----
    args,          \* parsed command line: mac_address, no_reboot, dry_run
    euidRoot,      \* os.geteuid() == 0
    epc,           \* position of main()
    users,         \* the authorization file: [stat, content]
    usersAtStart,  \* the authorization file as it was when the run started
    backup,        \* <users_file>.backup: [exists, content]
    normalized,    \* normalized_mac of main()
    countdown,     \* i of the countdown loop
    calls,         \* external commands invoked, in order
    eout,          \* messages printed by the enrollment tool, in order
    exitCode,      \* exit status of the enrollment tool, -1 while running
    raisedExc,     \* exceptions raised during the run: [exc, at], in order
    existsCheck,   \* what is_mac_already_exists did: [called, raised, result, warned]
    \* ---- log monitor (read_log.py) ----
    logExists,     \* whether log_file_path exists when the monitor starts
    log,           \* content of the log file
    logAtStart,    \* length of the log file when the monitor opened it
    pos,           \* offset of the monitor's read handle
    mpc,           \* position of monitor_log_for_mac()
    linesRead,     \* what readline() returned, in order (non-empty reads)
    detected,      \* MAC matches: [raw, norm, authorized, upto]
    actionRuns,    \* number of times the action command was executed
    mout,          \* messages printed by the monitor, in order
    mexit,         \* exit status of the monitor, -1 while running
    appended,      \* lines the writer appended: [text, upto]
    pending        \* rest of a line the writer has written only in part

evars == <<args, euidRoot, epc, users, usersAtStart, backup, normalized,
           countdown, calls, eout, exitCode, raisedExc, existsCheck>>
mvars == <<logExists, log, logAtStart, pos, mpc, linesRead, detected,
           actionRuns, mout, mexit, appended, pending>>
vars == <<evars, mvars>>

(***************************************************************************)
(* Characters                                                              *)
(***************************************************************************)
NL == "\n"

LowerHex == {"0", "1", "2", "3", "4", "5", "6", "7", "8", "9",
             "a", "b", "c", "d", "e", "f"}
UpperHex == {"A", "B", "C", "D", "E", "F"}
\* the class [a-fA-F0-9] (= [0-9A-Fa-f])
HexChars == LowerHex \cup UpperHex

\* str.lower() on one character (the model's alphabet has upper case
\* letters A-F, C and P only)
LowerChar(c) ==
    CASE c = "A" -> "a" [] c = "B" -> "b" [] c = "C" -> "c"
      [] c = "D" -> "d" [] c = "E" -> "e" [] c = "F" -> "f"
      [] c = "P" -> "p" [] OTHER -> c

UpperChar(c) ==
    CASE c = "a" -> "A" [] c = "b" -> "B" [] c = "c" -> "C"
      [] c = "d" -> "D" [] c = "e" -> "E" [] c = "f" -> "F"
      [] OTHER -> c

LowerStr(s) == [i \in 1..Len(s) |-> LowerChar(s[i])]
UpperStr(s) == [i \in 1..Len(s) |-> UpperChar(s[i])]

\* `needle in hay` on Python strings
IsSubstr(needle, hay) ==
    \E i \in 0..(Len(hay) - Len(needle)) :
        SubSeq(hay, i + 1, i + Len(needle)) = needle

(***************************************************************************)
(* mac_add.py: normalization and validation                                *)
(***************************************************************************)
\* re.sub(r'[^a-fA-F0-9]', '', s)
StripNonHex(s) == SelectSeq(s, LAMBDA c : c \in HexChars)

\* normalize_mac_address: ok = FALSE stands for the ValueError
normalize_mac_address(mac) ==
    LET cleaned == StripNonHex(LowerStr(mac))
    IN  IF Len(cleaned) = 12 /\ \A i \in 1..Len(cleaned) : cleaned[i] \in LowerHex
        THEN [ok |-> TRUE, value |-> cleaned]
        ELSE [ok |-> FALSE, value |-> <<>>]

\* What Python's '$' lets a pattern end at: the end of the string, or just
\* before a newline that is the string's last character.
DollarBodies(s) ==
    {s} \cup (IF Len(s) > 0 /\ s[Len(s)] = NL
              THEN {SubSeq(s, 1, Len(s) - 1)} ELSE {})

\* ([a-fA-F0-9]{2}<sep>){5}[a-fA-F0-9]{2} over the whole of b
OctetsPattern(b, seps) ==
    /\ Len(b) = 17
    /\ \A i \in 1..17 : IF i % 3 = 0 THEN b[i] \in seps ELSE b[i] \in HexChars

\* [a-fA-F0-9]{12} over the whole of b
BarePattern(b) ==
    /\ Len(b) = 12
    /\ \A i \in 1..12 : b[i] \in HexChars

\* ([a-fA-F0-9]{4}\.){2}[a-fA-F0-9]{4} over the whole of b
QuadsPattern(b) ==
    /\ Len(b) = 14
    /\ \A i \in 1..14 : IF i % 5 = 0 THEN b[i] = "." ELSE b[i] \in HexChars

\* validate_mac_format: any(re.match(pattern, mac) for pattern in patterns)
validate_mac_format(mac) ==
    \E b \in DollarBodies(mac) :
        \/ OctetsPattern(b, {":", "-"})
        \/ OctetsPattern(b, {"_"})
        \/ BarePattern(b)
        \/ QuadsPattern(b)

(***************************************************************************)
(* The authorization store                                                 *)
(***************************************************************************)
\* ' Cleartext-Password := "'
RecordMiddle ==
    <<" ", "C", "l", "e", "a", "r", "t", "e", "x", "t", "-", "P", "a", "s",
      "s", "w", "o", "r", "d", " ", ":", "=", " ", "\"">>

\* f'{normalized_mac} Cleartext-Password := "{normalized_mac}"' (no newline)
RecordText(mac) == mac \o RecordMiddle \o mac \o <<"\"">>

\* new_entry of add_mac_to_users_file
NewEntry(mac) == RecordText(mac) \o <<NL>>

\* add_mac_to_users_file writes the entry below the existing content
WrittenContentAppended(existing, mac) == existing \o NewEntry(mac)

\* What add_mac_to_users_file writes, given what it read
WrittenContent(existing, mac) ==
    NewEntry(mac)
        \o (IF existing # <<>> /\ existing[1] # NL THEN <<NL>> ELSE <<>>)
        \o existing

\* open(users_file, 'r') + read(): the exception it raises, or "none"
ReadError(file) ==
    CASE file.stat = "absent" -> "FileNotFoundError"
      [] file.stat = "denied" -> "PermissionError"
      [] OTHER -> "none"

\* is_mac_already_exists: [raised, result, warned]
is_mac_already_exists(file, mac) ==
    CASE ReadError(file) = "none" ->
            [raised |-> "none", result |-> IsSubstr(mac, file.content),
             warned |-> FALSE]
      [] ReadError(file) = "FileNotFoundError" ->
            [raised |-> "none", result |-> FALSE, warned |-> FALSE]
      [] OTHER ->
            [raised |-> ReadError(file), result |-> FALSE, warned |-> FALSE]

\* is_mac_authorized: [raised, result, warned]
is_mac_authorized(mac, file) ==
    CASE ReadError(file) = "none" ->
            [raised |-> "none", result |-> IsSubstr(mac, file.content),
             warned |-> FALSE]
      [] ReadError(file) = "FileNotFoundError" ->
            [raised |-> "none", result |-> FALSE, warned |-> TRUE]
      [] OTHER ->
            [raised |-> "none", result |-> FALSE, warned |-> TRUE]

(***************************************************************************)
(* Inputs of the enrollment tool                                           *)
(***************************************************************************)
AddrA == <<"d", "e", "a", "d", "b", "e", "e", "f", "0", "0", "0", "1">>
AddrB == <<"a", "a", "b", "b", "c", "c", "d", "d", "e", "e", "f", "f">>
Addresses == {AddrA, AddrB}

\* addr written in groups of n digits joined by sep
Grouped(addr, n, sep) ==
    [i \in 1..(12 + (12 \div n) - 1) |->
        IF i % (n + 1) = 0 THEN sep ELSE addr[i - (i \div (n + 1))]]

\* "aa:bb-cc:dd-ee:ff": colons and dashes mixed
MixedColonDash(addr) ==
    [i \in 1..17 |->
        IF i % 3 = 0 THEN (IF i % 2 = 0 THEN "-" ELSE ":")
        ELSE addr[i - (i \div 3)]]

\* the four accepted notations of an address, in both cases
WellFormedArgs ==
    UNION {{UpperStr(Grouped(a, 2, ":")), Grouped(a, 2, "-"),
            Grouped(a, 2, "_"), a, UpperStr(a), Grouped(a, 4, "."),
            MixedColonDash(a)} : a \in Addresses}

MalformedArgs ==
    {<<"n", "o", "t", "-", "a", "-", "m", "a", "c">>,
     SubSeq(Grouped(AddrB, 2, ":"), 1, 14),          \* aa:bb:cc:dd:ee
     AddrB \o <<"0">>,                               \* 13 digits
     Grouped(AddrB, 2, "."),                         \* aa.bb.cc.dd.ee.ff
     Grouped(AddrB, 4, ":"),                         \* aabb:ccdd:eeff
     <<"g">> \o SubSeq(AddrB, 2, 12),                \* not a hex digit
     <<>>}

\* a well-formed notation followed by line ends
NewlineArgs ==
    {AddrB \o <<NL>>, UpperStr(Grouped(AddrA, 2, ":")) \o <<NL>>,
     Grouped(AddrA, 4, ".") \o <<NL>>, AddrB \o <<NL, NL>>,
     <<NL>> \o AddrB}

\* values of the positional argument mac_address
MacArgs == WellFormedArgs \cup MalformedArgs \cup NewlineArgs

OtherLine == <<"x", " ", "y", NL>>

\* states of the authorization file
UsersFiles ==
    {[stat |-> "absent", content |-> <<>>],
     [stat |-> "ok", content |-> <<>>],
     [stat |-> "ok", content |-> OtherLine],
     [stat |-> "ok", content |-> NewEntry(AddrB) \o OtherLine],
     [stat |-> "ok", content |-> <<NL>> \o NewEntry(AddrA)],
     [stat |-> "ok", content |-> OtherLine \o RecordText(AddrA)],
     [stat |-> "denied", content |-> NewEntry(AddrB)]}

(***************************************************************************)
(* mac_add.py: main()                                                      *)
(***************************************************************************)
CountdownSeconds == 10

\* outcomes of subprocess.run([...], check=True): the command exits 0, exits
\* nonzero (CalledProcessError), or the user interrupts it
RunOutcomes == {"ok", "nonzero", "interrupted"}

\* the part of main() inside the outer try, outside the countdown's try
InOuterTry == {"normalize", "check_exists", "backup", "add", "after_add"}

EStay == UNCHANGED <<args, euidRoot, usersAtStart, mvars>>

\* sys.exit(code) after printing msgs
EExit(code, msgs) ==
    /\ epc' = "exited"
    /\ exitCode' = code
    /\ eout' = eout \o msgs

\* the handlers of main()'s outer try: all print and sys.exit(1)
EHandle(exc, msgs) ==
    /\ raisedExc' = Append(raisedExc, [exc |-> exc, at |-> epc])
    /\ EExit(1, msgs \o <<CASE exc = "ValueError" -> "error_value"
                            [] exc = "KeyboardInterrupt" -> "cancelled_by_user"
                            [] OTHER -> "unexpected_error">>)

\* the root check skipped: main() goes on to validate whoever runs it
CheckRootSkipped ==
    /\ epc = "check_root"
    /\ epc' = "validate"
    /\ UNCHANGED <<users, backup, normalized, countdown, calls, eout,
                   exitCode, raisedExc, existsCheck>>
    /\ EStay

\* if os.geteuid() != 0 and not args.dry_run: ... sys.exit(1)
CheckRoot ==
    /\ epc = "check_root"
    /\ IF ~euidRoot /\ ~args.dry_run
       THEN EExit(1, <<"error_not_root">>)
       ELSE epc' = "validate" /\ UNCHANGED <<eout, exitCode>>
    /\ UNCHANGED <<users, backup, normalized, countdown, calls, raisedExc,
                   existsCheck>>
    /\ EStay

\* if not validate_mac_format(args.mac_address): ... sys.exit(1)
ValidateMac ==
    /\ epc = "validate"
    /\ IF ~validate_mac_format(args.mac_address)
       THEN EExit(1, <<"error_invalid_mac", "supported_formats">>)
       ELSE epc' = "normalize" /\ UNCHANGED <<eout, exitCode>>
    /\ UNCHANGED <<users, backup, normalized, countdown, calls, raisedExc,
                   existsCheck>>
    /\ EStay

\* the dry-run branch missing: a dry run goes on like any other run
NormalizeNoDryRun ==
    /\ epc = "normalize"
    /\ LET n == normalize_mac_address(args.mac_address)
       IN  /\ n.ok
           /\ normalized' = n.value
           /\ eout' = Append(eout, "normalized")
           /\ epc' = "check_exists"
           /\ UNCHANGED <<exitCode, raisedExc>>
    /\ UNCHANGED <<users, backup, countdown, calls, existsCheck>>
    /\ EStay

\* normalized_mac = normalize_mac_address(...); the dry-run branch
Normalize ==
    /\ epc = "normalize"
    /\ LET n == normalize_mac_address(args.mac_address)
       IN  IF ~n.ok
           THEN EHandle("ValueError", <<>>) /\ UNCHANGED normalized
           ELSE /\ normalized' = n.value
                /\ IF args.dry_run
                   THEN /\ EExit(0, <<"normalized", "dry_run_mode", "would_add",
                                      "would_modify",
                                      IF args.no_reboot THEN "would_restart"
                                      ELSE "would_reboot">>)
                        /\ UNCHANGED raisedExc
                   ELSE /\ eout' = Append(eout, "normalized")
                        /\ epc' = "check_exists"
                        /\ UNCHANGED <<exitCode, raisedExc>>
    /\ UNCHANGED <<users, backup, countdown, calls, existsCheck>>
    /\ EStay

\* if is_mac_already_exists(...): response = input(...); ...
CheckExists ==
    /\ epc = "check_exists"
    /\ LET r == is_mac_already_exists(users, normalized)
       IN  /\ existsCheck' = [called |-> TRUE, raised |-> r.raised,
                             result |-> r.result, warned |-> r.warned]
           /\ IF r.raised # "none"
              THEN EHandle(r.raised, <<>>)
              ELSE IF ~r.result
              THEN epc' = "backup" /\ UNCHANGED <<eout, exitCode, raisedExc>>
              ELSE \E response \in {"y", "Y", "n", "", "interrupt"} :
                      IF response = "interrupt"
                      THEN EHandle("KeyboardInterrupt", <<"already_exists">>)
                      ELSE IF LowerChar(response) # "y"
                      THEN /\ EExit(0, <<"already_exists", "aborted">>)
                           /\ UNCHANGED raisedExc
                      ELSE /\ epc' = "backup"
                           /\ eout' = Append(eout, "already_exists")
                           /\ UNCHANGED <<exitCode, raisedExc>>
    /\ UNCHANGED <<users, backup, normalized, countdown, calls>>
    /\ EStay

\* backup_users_file without its except clause: the CalledProcessError
\* reaches main()
backup_users_file_uncaught(file, outcome) ==
    CASE outcome = "ok" ->
            [backup |-> [exists |-> TRUE, content |-> file.content],
             msgs |-> <<"backup_created">>, raised |-> "none", caught |-> FALSE]
      [] outcome = "nonzero" ->
            [backup |-> backup, msgs |-> <<>>,
             raised |-> "CalledProcessError", caught |-> FALSE]
      [] OTHER ->
            [backup |-> backup, msgs |-> <<>>, raised |-> "KeyboardInterrupt",
             caught |-> FALSE]

\* backup_users_file: cp users_file users_file.backup, for each outcome of
\* the cp command: [backup, msgs, raised, caught]
backup_users_file(file, outcome) ==
    CASE outcome = "ok" ->
            [backup |-> [exists |-> TRUE, content |-> file.content],
             msgs |-> <<"backup_created">>, raised |-> "none", caught |-> FALSE]
      [] outcome = "nonzero" ->
            [backup |-> backup, msgs |-> <<"warning_no_backup">>,
             raised |-> "CalledProcessError", caught |-> TRUE]
      [] OTHER ->
            [backup |-> backup, msgs |-> <<>>, raised |-> "KeyboardInterrupt",
             caught |-> FALSE]

\* if Path(args.users_file).exists(): backup_users_file(args.users_file)
Backup ==
    /\ epc = "backup"
    /\ IF users.stat = "absent"
       THEN /\ epc' = "add"
            /\ UNCHANGED <<backup, calls, eout, exitCode, raisedExc>>
       ELSE \E outcome \in RunOutcomes :
              LET b == backup_users_file(users, outcome)
              IN  /\ calls' = Append(calls, "cp")
                  /\ backup' = b.backup
                  /\ IF b.raised # "none" /\ ~b.caught
                     THEN EHandle(b.raised, b.msgs)
                     ELSE /\ epc' = "add"
                          /\ eout' = eout \o b.msgs
                          /\ raisedExc' =
                               IF b.raised = "none" THEN raisedExc
                               ELSE Append(raisedExc,
                                           [exc |-> b.raised, at |-> epc])
                          /\ UNCHANGED exitCode
    /\ UNCHANGED <<users, normalized, countdown, existsCheck>>
    /\ EStay

\* add_mac_to_users_file(args.users_file, normalized_mac)
AddMac ==
    /\ epc = "add"
    /\ IF ReadError(users) = "PermissionError"
       THEN EHandle("PermissionError", <<>>) /\ UNCHANGED users
       ELSE /\ users' = [stat |-> "ok",
                         content |->
                            WrittenContent(
                                IF ReadError(users) = "FileNotFoundError"
                                THEN <<>> ELSE users.content,
                                normalized)]
            /\ eout' = Append(eout, "added")
            /\ epc' = "after_add"
            /\ UNCHANGED <<exitCode, raisedExc>>
    /\ UNCHANGED <<backup, normalized, countdown, calls, existsCheck>>
    /\ EStay

\* restart_freeradius() and what main() does after it, called from `at`:
\* a failed restart is printed and main() returns all the same
RestartEffect(outcome, msgs) ==
    /\ calls' = Append(calls, "systemctl_restart")
    /\ IF outcome = "interrupted"
       THEN /\ raisedExc' = Append(raisedExc, [exc |-> "KeyboardInterrupt",
                                               at |-> "restart"])
            /\ EExit(1, msgs \o <<"restarting", "cancelled_by_user">>)
       ELSE /\ raisedExc' =
                IF outcome = "ok" THEN raisedExc
                ELSE Append(raisedExc, [exc |-> "CalledProcessError",
                                        at |-> "restart"])
            /\ EExit(0, msgs \o <<"restarting",
                                  IF outcome = "ok" THEN "restarted"
                                  ELSE "error_restarting">>)

\* if args.no_reboot: restart_freeradius()
RestartService ==
    /\ epc = "after_add"
    /\ args.no_reboot
    /\ \E outcome \in RunOutcomes : RestartEffect(outcome, <<>>)
    /\ UNCHANGED <<users, backup, normalized, countdown, existsCheck>>
    /\ EStay

\* else: print("Server will reboot in 10 seconds ..."); for i in range(10, 0, -1)
StartCountdown ==
    /\ epc = "after_add"
    /\ ~args.no_reboot
    /\ epc' = "countdown"
    /\ countdown' = CountdownSeconds
    /\ eout' = Append(eout, "will_reboot")
    /\ UNCHANGED <<users, backup, normalized, calls, exitCode, raisedExc,
                   existsCheck>>
    /\ EStay

\* print(f"Rebooting in {i} seconds..."); time.sleep(1)
CountdownTick ==
    /\ epc = "countdown"
    /\ countdown > 0
    /\ countdown' = countdown - 1
    /\ UNCHANGED <<epc, users, backup, normalized, calls, eout, exitCode,
                   raisedExc, existsCheck>>
    /\ EStay

\* the interrupt during the countdown is not caught there: it reaches the
\* outer handler, which ends the run
CountdownInterruptAborts ==
    /\ epc = "countdown"
    /\ countdown > 0
    /\ EHandle("KeyboardInterrupt", <<>>)
    /\ UNCHANGED <<users, backup, normalized, countdown, calls, existsCheck>>
    /\ EStay

\* except KeyboardInterrupt (of the countdown's try):
\* print("Reboot cancelled ..."); restart_freeradius(), after the commands
\* newCalls were invoked and from position `at`
FallbackRestart(newCalls, at, outcome) ==
    /\ calls' = calls \o newCalls \o <<"systemctl_restart">>
    /\ raisedExc' =
         raisedExc
           \o <<[exc |-> "KeyboardInterrupt", at |-> at]>>
           \o (CASE outcome = "ok" -> <<>>
                 [] outcome = "nonzero" ->
                      <<[exc |-> "CalledProcessError", at |-> "restart"]>>
                 [] OTHER ->
                      <<[exc |-> "KeyboardInterrupt", at |-> "restart"]>>)
    /\ IF outcome = "interrupted"
       THEN EExit(1, <<"reboot_cancelled", "restarting", "cancelled_by_user">>)
       ELSE EExit(0, <<"reboot_cancelled", "restarting",
                       IF outcome = "ok" THEN "restarted"
                       ELSE "error_restarting">>)

\* Ctrl+C while the countdown sleeps
CountdownInterrupt ==
    /\ epc = "countdown"
    /\ countdown > 0
    /\ \E outcome \in RunOutcomes : FallbackRestart(<<>>, "countdown", outcome)
    /\ UNCHANGED <<users, backup, normalized, countdown, existsCheck>>
    /\ EStay

\* print(); reboot_server(): shutdown -r +0; Ctrl+C while shutdown runs is
\* caught by the countdown's try as well
RebootServer ==
    /\ epc = "countdown"
    /\ countdown = 0
    /\ \E outcome \in RunOutcomes :
          IF outcome = "interrupted"
          THEN \E restart \in RunOutcomes :
                  FallbackRestart(<<"shutdown">>, "reboot", restart)
          ELSE /\ calls' = Append(calls, "shutdown")
               /\ raisedExc' =
                    IF outcome = "ok" THEN raisedExc
                    ELSE Append(raisedExc, [exc |-> "CalledProcessError",
                                            at |-> "reboot"])
               /\ EExit(0, <<"rebooting",
                             IF outcome = "ok" THEN "reboot_initiated"
                             ELSE "error_reboot">>)
    /\ UNCHANGED <<users, backup, normalized, countdown, existsCheck>>
    /\ EStay

\* except KeyboardInterrupt (of the outer try): Ctrl+C between two steps
Interrupt ==
    /\ epc \in InOuterTry
    /\ EHandle("KeyboardInterrupt", <<>>)
    /\ UNCHANGED <<users, backup, normalized, countdown, calls, existsCheck>>
    /\ EStay

InitEnroll ==
    /\ args \in [mac_address : MacArgs, no_reboot : BOOLEAN, dry_run : BOOLEAN]
    /\ euidRoot \in BOOLEAN
    /\ users \in UsersFiles
    /\ usersAtStart = users
    /\ epc = "check_root"
    /\ backup = [exists |-> FALSE, content |-> <<>>]
    /\ normalized = <<>>
    /\ countdown = 0
    /\ calls = <<>>
    /\ eout = <<>>
    /\ exitCode = -1
    /\ raisedExc = <<>>
    /\ existsCheck = [called |-> FALSE, raised |-> "none", result |-> FALSE,
                      warned |-> FALSE]
    \* the monitor does not run
    /\ logExists = FALSE
    /\ log = <<>>
    /\ logAtStart = 0
    /\ pos = 0
    /\ mpc = "idle"
    /\ linesRead = <<>>
    /\ detected = <<>>
    /\ actionRuns = 0
    /\ mout = <<>>
    /\ mexit = -1
    /\ appended = <<>>
    /\ pending = [rest |-> <<>>, text |-> <<>>, counted |-> FALSE]

NextEnroll ==
    \/ CheckRoot
    \/ ValidateMac
    \/ Normalize
    \/ CheckExists
    \/ Backup
    \/ AddMac
    \/ RestartService
    \/ StartCountdown
    \/ CountdownTick
    \/ CountdownInterrupt
    \/ RebootServer
    \/ Interrupt

SpecEnroll == InitEnroll /\ [][NextEnroll]_vars

(***************************************************************************)
(* read_log.py                                                             *)
(***************************************************************************)
\* normalize_mac: re.sub(r'[:-]', '', mac_address).lower()
normalize_mac(mac_address) ==
    LowerStr(SelectSeq(mac_address, LAMBDA c : c \notin {":", "-"}))

\* mac_pattern matches at offset i of line (i = 1 is the first character)
MacPatternAt(line, i) ==
    /\ i + 16 <= Len(line)
    /\ \A k \in 1..17 :
          IF k % 3 = 0 THEN line[i + k - 1] \in {":", "-"}
          ELSE line[i + k - 1] \in HexChars

\* mac_pattern.search(line): group(0) of the leftmost match, <<>> for None
MacSearch(line) ==
    IF \E i \in 1..Len(line) : MacPatternAt(line, i)
    THEN LET i == CHOOSE j \in 1..Len(line) :
                      /\ MacPatternAt(line, j)
                      /\ \A h \in 1..(j - 1) : ~MacPatternAt(line, h)
         IN  SubSeq(line, i, i + 16)
    ELSE <<>>

\* log_file.readline() with the handle at offset p: up to and including the
\* next newline, or up to the end of the file when there is none
ReadLine(content, p) ==
    IF \E j \in (p + 1)..Len(content) : content[j] = NL
    THEN SubSeq(content, p + 1,
                CHOOSE j \in (p + 1)..Len(content) :
                    /\ content[j] = NL
                    /\ \A h \in (p + 1)..(j - 1) : content[h] # NL)
    ELSE SubSeq(content, p + 1, Len(content))

\* lines the writer of the log appends
MacLineA == <<"x", " ">> \o UpperStr(Grouped(AddrA, 2, ":")) \o <<NL>>
MacLineB == Grouped(AddrB, 2, "-") \o <<" ", "y", NL>>
LogLines == {MacLineA, MacLineB, OtherLine}

\* what the log file holds before the monitor starts
InitialLogs == {<<>>, MacLineA, SubSeq(MacLineB, 1, 8)}

\* states of the authorization file the monitor looks MACs up in
AuthFiles ==
    {[stat |-> "absent", content |-> <<>>],
     [stat |-> "ok", content |-> NewEntry(AddrB) \o OtherLine],
     [stat |-> "ok", content |-> NewEntry(AddrB) \o NewEntry(AddrA)],
     [stat |-> "denied", content |-> NewEntry(AddrB)]}

\* where the writer's first write of a line may end: after every third
\* character, which falls inside an octet of MacLineA, behind a separator
\* of MacLineB and before the newline of OtherLine
FragmentCuts(l) == {k \in 1..(Len(l) - 1) : k % 3 = 0}

MaxAppends == 2
MaxFragmented == 1

MStay == UNCHANGED <<evars, logExists>>

\* the writer appends one whole line with a single write
AppendLine ==
    /\ logExists
    /\ pending.rest = <<>>
    /\ Len(appended) < MaxAppends
    /\ \E l \in LogLines :
          /\ log' = log \o l
          /\ appended' = Append(appended, [text |-> l, upto |-> Len(log) + Len(l),
                                           fragments |-> 1,
                                           counted |-> mpc # "start"])
    /\ UNCHANGED <<logAtStart, pos, mpc, linesRead, detected, actionRuns,
                   mout, mexit, pending>>
    /\ MStay

\* the writer writes the first k characters of a line, the rest later
AppendFragment ==
    /\ logExists
    /\ pending.rest = <<>>
    /\ Len(appended) < MaxAppends
    /\ Cardinality({i \in 1..Len(appended) : appended[i].fragments > 1})
          < MaxFragmented
    /\ \E l \in LogLines : \E k \in FragmentCuts(l) :
          /\ log' = log \o SubSeq(l, 1, k)
          /\ pending' = [rest |-> SubSeq(l, k + 1, Len(l)), text |-> l,
                         counted |-> mpc # "start"]
    /\ UNCHANGED <<logAtStart, pos, mpc, linesRead, detected, actionRuns,
                   mout, mexit, appended>>
    /\ MStay

\* the writer writes the rest of the line it began
AppendRest ==
    /\ pending.rest # <<>>
    /\ log' = log \o pending.rest
    /\ appended' = Append(appended,
                          [text |-> pending.text,
                           upto |-> Len(log) + Len(pending.rest),
                           fragments |-> 2, counted |-> pending.counted])
    /\ pending' = [rest |-> <<>>, text |-> <<>>, counted |-> FALSE]
    /\ UNCHANGED <<logAtStart, pos, mpc, linesRead, detected, actionRuns,
                   mout, mexit>>
    /\ MStay

\* seek(0, 2) left out: the handle stays at the beginning of the file
OpenLogNoSeek ==
    /\ mpc = "start"
    /\ logExists
    /\ mpc' = "loop"
    /\ pos' = 0
    /\ logAtStart' = Len(log)
    /\ mout' = Append(mout, "monitoring")
    /\ UNCHANGED <<log, linesRead, detected, actionRuns, mexit, appended,
                   pending>>
    /\ MStay

\* with open(log_file_path, 'r') as log_file: log_file.seek(0, 2)
\* except FileNotFoundError: ... sys.exit(1)
OpenLog ==
    /\ mpc = "start"
    /\ IF ~logExists
       THEN /\ mpc' = "exited"
            /\ mexit' = 1
            /\ mout' = Append(mout, "error_log_not_found")
            /\ UNCHANGED <<pos, logAtStart>>
       ELSE /\ mpc' = "loop"
            /\ pos' = Len(log)
            /\ logAtStart' = Len(log)
            /\ mout' = Append(mout, "monitoring")
            /\ UNCHANGED mexit
    /\ UNCHANGED <<log, linesRead, detected, actionRuns, appended, pending>>
    /\ MStay

\* the loop goes on after the action command instead of exiting
PollLineNoExit(line, cmdRaises) ==
    LET m == MacSearch(line)
        n == normalize_mac(m)
        r == is_mac_authorized(n, users)
    IN  /\ pos' = pos + Len(line)
        /\ linesRead' = Append(linesRead, line)
        /\ UNCHANGED <<mexit, mpc>>
        /\ IF m = <<>>
           THEN UNCHANGED <<detected, actionRuns, mout>>
           ELSE /\ detected' = Append(detected,
                                      [raw |-> m, norm |-> n,
                                       authorized |-> r.result,
                                       upto |-> pos + Len(line)])
                /\ mout' = Append(mout, "mac_found")
                /\ actionRuns' = IF r.result THEN actionRuns
                                 ELSE actionRuns + 1

\* what one pass of the loop does with the non-empty line it read;
\* cmdRaises: subprocess.run of the action command raises
PollLine(line, cmdRaises) ==
    LET m == MacSearch(line)
        n == normalize_mac(m)
        r == is_mac_authorized(n, users)
    IN  /\ pos' = pos + Len(line)
        /\ linesRead' = Append(linesRead, line)
        /\ IF m = <<>>
           THEN UNCHANGED <<detected, actionRuns, mout, mexit, mpc>>
           ELSE /\ detected' = Append(detected,
                                      [raw |-> m, norm |-> n,
                                       authorized |-> r.result,
                                       upto |-> pos + Len(line)])
                /\ IF r.result
                   THEN /\ mout' = mout \o <<"mac_found", "authorized">>
                        /\ UNCHANGED <<actionRuns, mexit, mpc>>
                   ELSE /\ actionRuns' = actionRuns + 1
                        /\ mout' = mout
                             \o <<"mac_found">>
                             \o (IF r.warned THEN <<"warning_auth_file">>
                                 ELSE <<>>)
                             \o <<"not_authorized",
                                  IF cmdRaises THEN "error_executing"
                                  ELSE "exiting">>
                        /\ mexit' = IF cmdRaises THEN 1 ELSE 0
                        /\ mpc' = "exited"

\* one pass of `while True`: line = log_file.readline(); if not line:
\* time.sleep(0.1); continue; match = mac_pattern.search(line); ...
Poll ==
    /\ mpc = "loop"
    /\ LET line == ReadLine(log, pos)
       IN  IF line = <<>>
           THEN UNCHANGED <<pos, linesRead, detected, actionRuns, mout, mexit,
                            mpc>>
           ELSE \E cmdRaises \in BOOLEAN :
                    PollLine(line, cmdRaises)
    /\ UNCHANGED <<log, logAtStart, appended, pending>>
    /\ MStay

\* except KeyboardInterrupt: print("\nMonitoring stopped."); sys.exit(0)
MonitorInterrupt ==
    /\ mpc = "loop"
    /\ mpc' = "exited"
    /\ mexit' = 0
    /\ mout' = Append(mout, "monitoring_stopped")
    /\ UNCHANGED <<log, logAtStart, pos, linesRead, detected, actionRuns,
                   appended, pending>>
    /\ MStay

InitMon ==
    /\ logExists \in BOOLEAN
    /\ log \in (IF logExists THEN InitialLogs ELSE {<<>>})
    /\ users \in AuthFiles
    /\ usersAtStart = users
    /\ logAtStart = 0
    /\ pos = 0
    /\ mpc = "start"
    /\ linesRead = <<>>
    /\ detected = <<>>
    /\ actionRuns = 0
    /\ mout = <<>>
    /\ mexit = -1
    /\ appended = <<>>
    /\ pending = [rest |-> <<>>, text |-> <<>>, counted |-> FALSE]
    \* the enrollment tool does not run
    /\ args = [mac_address |-> <<>>, no_reboot |-> FALSE, dry_run |-> FALSE]
    /\ euidRoot = FALSE
    /\ epc = "idle"
    /\ backup = [exists |-> FALSE, content |-> <<>>]
    /\ normalized = <<>>
    /\ countdown = 0
    /\ calls = <<>>
    /\ eout = <<>>
    /\ exitCode = -1
    /\ raisedExc = <<>>
    /\ existsCheck = [called |-> FALSE, raised |-> "none", result |-> FALSE,
                      warned |-> FALSE]

NextMon ==
    \/ AppendLine
    \/ AppendFragment
    \/ AppendRest
    \/ OpenLog
    \/ Poll
    \/ MonitorInterrupt

SpecMon == InitMon /\ [][NextMon]_vars

\* the monitor beside a writer that appends every line with a single write
NextMonWholeLines ==
    \/ AppendLine
    \/ OpenLog
    \/ Poll
    \/ MonitorInterrupt

SpecMonWholeLines == InitMon /\ [][NextMonWholeLines]_vars

(***************************************************************************)
(* Properties of the enrollment tool (checked under SpecEnroll)            *)
(***************************************************************************)
Has(seq, x) == \E i \in 1..Len(seq) : seq[i] = x

\* the lines of a text, without their line ends (str.splitlines)
RECURSIVE SplitLines(_)
SplitLines(s) ==
    IF s = <<>> THEN <<>>
    ELSE LET l == ReadLine(s, 0)
             body == IF l[Len(l)] = NL THEN SubSeq(l, 1, Len(l) - 1) ELSE l
         IN  <<body>> \o SplitLines(SubSeq(s, Len(l) + 1, Len(s)))

IsSuffixSeq(t, s) ==
    /\ Len(t) <= Len(s)
    /\ SubSeq(s, Len(s) - Len(t) + 1, Len(s)) = t

\* 12 lowercase hexadecimal characters, no separators
Canonical(m) == Len(m) = 12 /\ \A i \in 1..12 : m[i] \in LowerHex

\* one of the four notations: colon/dash-separated octets, underscore-
\* separated octets, 12 contiguous hex characters, dot-separated quads
InNotation(s) ==
    \/ OctetsPattern(s, {":", "-"})
    \/ OctetsPattern(s, {"_"})
    \/ BarePattern(s)
    \/ QuadsPattern(s)

\* the address a string in one of the notations writes: its hex digits
DigitsOf(s) == LowerStr(SelectSeq(s, LAMBDA c : c \in HexChars))

\* main() went past the validation of args.mac_address
Accepted ==
    \/ epc \in {"normalize", "check_exists", "backup", "add", "after_add",
                "countdown"}
    \/ epc = "exited" /\ normalized # <<>>

Rejected == epc = "exited" /\ Has(eout, "error_invalid_mac")

\* add_mac_to_users_file returned
Added == Has(eout, "added")

\* nothing outside the process was touched: the authorization file is as it
\* was, there is no backup file, and no command was invoked
Untouched ==
    /\ users = usersAtStart
    /\ ~backup.exists
    /\ calls = <<>>

\* C2: after add_mac_to_users_file the file's first line is the record
\* <mac> Cleartext-Password := "<mac>", the lines the file had before follow
\* in their order (behind at most empty lines), and a file that did not exist
\* holds the record and nothing else.
C2_RecordFirstRestPreserved ==
    Added =>
        LET new == SplitLines(users.content)
            old == SplitLines(usersAtStart.content)
        IN  /\ users.stat = "ok"
            /\ new # <<>>
            /\ new[1] = RecordText(normalized)
            /\ IsSuffixSeq(old, Tail(new))
            /\ \A i \in 2..(Len(new) - Len(old)) : new[i] = <<>>
            /\ usersAtStart.stat = "absent" => users.content = NewEntry(normalized)

C2_Witness ==
    /\ Added
    /\ Len(SplitLines(usersAtStart.content)) >= 2
    /\ usersAtStart.content[1] # NL

\* C3: a dry run never modifies or creates the authorization file, never
\* creates a backup, never invokes a command; it ends reporting the intended
\* actions, or a validation error (or that the user interrupted it).
C3_DryRunTouchesNothing ==
    args.dry_run =>
        /\ Untouched
        /\ ~existsCheck.called
        /\ epc = "exited" =>
              \/ exitCode = 0 /\ Has(eout, "would_add")
                   /\ Has(eout, IF args.no_reboot THEN "would_restart"
                                ELSE "would_reboot")
              \/ exitCode = 1 /\ eout = <<"error_invalid_mac", "supported_formats">>
              \/ exitCode = 1 /\ eout = <<"cancelled_by_user">>

C3_Witness ==
    /\ args.dry_run
    /\ ~euidRoot
    /\ ~args.no_reboot
    /\ usersAtStart.stat = "absent"
    /\ epc = "exited"
    /\ Has(eout, "would_reboot")

\* C4 (as claimed): the existence check returns false without aborting the
\* caller, and warns, when the authorization file is absent or unreadable;
\* otherwise it returns true exactly when the normalized MAC is a substring
\* of the file's text.
C4_ExistenceCheckAsClaimed ==
    existsCheck.called =>
        IF usersAtStart.stat \in {"absent", "denied"}
        THEN /\ existsCheck.raised = "none"
             /\ ~existsCheck.result
             /\ existsCheck.warned
        ELSE /\ existsCheck.raised = "none"
             /\ existsCheck.result = IsSubstr(normalized, usersAtStart.content)

\* an exception that reaches the handlers of main()'s outer try: any but the
\* CalledProcessError of cp, systemctl and shutdown (caught where the command
\* is run) and the interrupt the countdown's own try catches
ReachesMain(e) ==
    /\ e.exc # "CalledProcessError"
    /\ ~(e.exc = "KeyboardInterrupt" /\ e.at \in {"countdown", "reboot"})

\* C5 (as claimed): the tool exits nonzero when it is not elevated and not a
\* dry run, when the MAC fails validation, and when any exception occurs
\* during the run.
C5_AnyExceptionExitsNonzero ==
    epc = "exited" =>
        /\ (~euidRoot /\ ~args.dry_run) => exitCode # 0
        /\ ~validate_mac_format(args.mac_address) => exitCode # 0
        /\ raisedExc # <<>> => exitCode # 0

\* C5 (amended): the tool exits nonzero when it is not elevated and not a dry
\* run, when the MAC fails validation, and when an exception reaches the
\* handlers of main(); in the first two cases nothing was read, backed up,
\* written or invoked before the exit.
C5_ExitStatus ==
    /\ (epc = "exited" /\ ~euidRoot /\ ~args.dry_run) =>
          /\ exitCode = 1
          /\ eout = <<"error_not_root">>
          /\ Untouched /\ ~existsCheck.called
    /\ (epc = "exited" /\ ~validate_mac_format(args.mac_address)) =>
          /\ exitCode = 1
          /\ Untouched /\ ~existsCheck.called
    /\ \A i \in 1..Len(raisedExc) :
          ReachesMain(raisedExc[i]) => epc = "exited" /\ exitCode = 1

C5_Witness ==
    /\ epc = "exited"
    /\ exitCode = 1
    /\ euidRoot
    /\ Has(raisedExc, [exc |-> "PermissionError", at |-> "check_exists"])

\* the user interrupted the countdown
CountdownCancelled ==
    Has(raisedExc, [exc |-> "KeyboardInterrupt", at |-> "countdown"])

\* C6: without --no-reboot, an interrupt during the countdown makes the tool
\* invoke the service restart instead of aborting: the reboot command is not
\* invoked, the record written stays in the file, the restart is attempted.
C6_CancelFallsBackToRestart ==
    CountdownCancelled =>
        /\ ~args.no_reboot
        /\ ~Has(calls, "shutdown")
        /\ Has(calls, "systemctl_restart")
        /\ Has(eout, "reboot_cancelled")
        /\ users.stat = "ok"
        /\ SplitLines(users.content)[1] = RecordText(normalized)
        /\ epc = "exited"
        /\ \/ exitCode = 0
           \/ Has(raisedExc, [exc |-> "KeyboardInterrupt", at |-> "restart"])

C6_Witness ==
    /\ CountdownCancelled
    /\ countdown = 4
    /\ exitCode = 0
    /\ Has(eout, "restarted")

\* the cp command of the backup failed
BackupFailed ==
    Has(raisedExc, [exc |-> "CalledProcessError", at |-> "backup"])

\* the user interrupted the run outside the countdown
UserAborted ==
    \E i \in 1..Len(raisedExc) :
        /\ raisedExc[i].exc = "KeyboardInterrupt"
        /\ raisedExc[i].at \notin {"countdown", "reboot"}

C10_ValidationAndNormalizationAsClaimed ==
    LET mac == args.mac_address
        n == normalize_mac_address(mac)
    IN  /\ Accepted =>
              /\ n.ok /\ Canonical(n.value)
              /\ n.value = DigitsOf(mac)
              /\ normalize_mac_address(n.value) = n
        /\ normalized # <<>> => normalized = n.value
        /\ (epc \notin {"check_root", "validate"}
              /\ (euidRoot \/ args.dry_run) /\ ~InNotation(mac)) => Rejected

\* What holds of C10: the normalization of every accepted string, and the
\* rejection of every string that is in none of the notations even with a
\* final newline taken off.
C10_NormalizationOfAccepted ==
    LET mac == args.mac_address
        n == normalize_mac_address(mac)
    IN  /\ Accepted =>
              /\ n.ok /\ Canonical(n.value)
              /\ n.value = DigitsOf(mac)
              /\ normalize_mac_address(n.value) = n
        /\ normalized # <<>> => normalized = n.value
        /\ (epc \notin {"check_root", "validate"}
              /\ (euidRoot \/ args.dry_run)
              /\ \A b \in DollarBodies(mac) : ~InNotation(b)) => Rejected

(***************************************************************************)
(* Properties of the log monitor (checked under SpecMon)                   *)
(***************************************************************************)
RECURSIVE Concat(_)
Concat(seqs) == IF seqs = <<>> THEN <<>> ELSE Head(seqs) \o Concat(Tail(seqs))

\* the normalized MAC is in the authorization store
Found(mac) == users.stat = "ok" /\ IsSubstr(mac, users.content)

AuthorizedMatches == {i \in 1..Len(detected) : detected[i].authorized}
UnauthorizedMatches == {i \in 1..Len(detected) : ~detected[i].authorized}

\* C1: a matched MAC that is in the store is logged as authorized, runs no
\* command and does not end the monitor; one that is not makes the monitor
\* execute the action command and terminate. So the command runs at most
\* once, and nothing is read after the first unauthorized MAC.
C1_AuthorizedContinuesUnauthorizedExits ==
    /\ \A i \in 1..Len(detected) :
          detected[i].authorized = Found(detected[i].norm)
    /\ actionRuns = Cardinality(UnauthorizedMatches)
    /\ actionRuns <= 1
    /\ Cardinality({k \in 1..Len(mout) : mout[k] = "authorized"})
          = Cardinality(AuthorizedMatches)
    /\ \A i \in UnauthorizedMatches :
          /\ i = Len(detected)
          /\ mpc = "exited" /\ mexit \in {0, 1}
          /\ pos = detected[i].upto
          /\ Len(Concat(linesRead)) = pos - logAtStart
    /\ (mpc = "exited" /\ UnauthorizedMatches = {}) =>
          mout[Len(mout)] \in {"monitoring_stopped", "error_log_not_found"}

C1_Witness ==
    /\ Len(detected) = 2
    /\ detected[1].authorized
    /\ ~detected[2].authorized
    /\ detected[2].norm = AddrA
    /\ actionRuns = 1
    /\ mpc = "exited"

\* C8 (as claimed): every line with a MAC appended after monitoring started
\* is read, and its MAC detected and normalized to 12 lowercase hex
\* characters, unless the monitor has terminated before reaching it; stated
\* for the lines the read handle has gone past.
C8_AppendedMacDetectedAsClaimed ==
    \A i \in 1..Len(appended) :
        (/\ appended[i].counted
         /\ MacSearch(appended[i].text) # <<>>
         /\ pos >= appended[i].upto) =>
            \E j \in 1..Len(detected) :
                /\ detected[j].upto = appended[i].upto
                /\ detected[j].norm = DigitsOf(MacSearch(appended[i].text))
                /\ Canonical(detected[j].norm)

\* What holds of C8: the same for the lines the writer appended with a
\* single write (checked under SpecMonWholeLines, where it writes no line in
\* two parts).
C8_WholeLineMacDetected ==
    \A i \in 1..Len(appended) :
        (/\ appended[i].counted
         /\ appended[i].fragments = 1
         /\ MacSearch(appended[i].text) # <<>>
         /\ pos >= appended[i].upto) =>
            \E j \in 1..Len(detected) :
                /\ detected[j].upto = appended[i].upto
                /\ detected[j].norm = DigitsOf(MacSearch(appended[i].text))
                /\ Canonical(detected[j].norm)

\* the state part of C9
C9_ReadsOnlyWhatWasAppended ==
    /\ mpc \in {"loop", "exited"} /\ logExists =>
          /\ logAtStart <= pos /\ pos <= Len(log)
          /\ Concat(linesRead) = SubSeq(log, logAtStart + 1, pos)
          /\ \A j \in 1..Len(detected) :
                /\ detected[j].upto > logAtStart
                /\ IsSubstr(detected[j].raw,
                            SubSeq(log, logAtStart + 1, detected[j].upto))
    /\ mpc = "start" => linesRead = <<>> /\ detected = <<>> /\ actionRuns = 0
    /\ ~logExists =>
          /\ mpc \in {"start", "exited"}
          /\ linesRead = <<>> /\ detected = <<>> /\ actionRuns = 0
          /\ mpc = "exited" =>
                mexit = 1 /\ mout = <<"error_log_not_found">>

\* C9: the monitor starts at the end of the log as it is when monitoring
\* starts: nothing in the file at start is scanned or acted on, the read
\* position never moves backwards, every appended character is consumed at
\* most once; a missing log file is reported and ends the monitor with a
\* nonzero status before any read.
C9_StartsAtEndOfFile ==
    /\ []C9_ReadsOnlyWhatWasAppended
    /\ [][pos' >= pos /\ (mpc # "start" => logAtStart' = logAtStart)]_vars

C9_Witness ==
    /\ logAtStart > 0
    /\ MacSearch(SubSeq(log, 1, logAtStart)) # <<>>
    /\ Len(linesRead) >= 2
    /\ pos = Len(log)
    /\ mpc = "loop"

====
